---- MODULE Spec2Model ----
(***************************************************************************)
(* State-machine model of src/components/enhanced-interactive-piano-roll   *)
(* .tsx: the note store, the pointer handlers of the notes canvas and the  *)
(* playRecorded / stopPlayback pair driving Tone.Transport.                *)
(*                                                                         *)
(* Every React handler is one atomic action: React flushes the state       *)
(* updates of a discrete event before the next event is dispatched, so a   *)
(* handler always closes over the state left by the previous one.          *)
(* Seconds are counted in hundredths, so that 0.25 s is the integer 25.    *)
(*                                                                         *)
(* A handler is an action that is enabled in every state: the model calls  *)
(* playRecorded and stopPlayback as functions, whatever isPlaying is,      *)
(* although the button of line 275 binds only one of them at a time, and   *)
(* it dispatches pointer events in any order.  The canvas refs are always  *)
(* set once the component is mounted, so the `!notesCanvasRef.current`     *)
(* early returns are never taken.  Left out, because no handler reads      *)
(* them: activeNotes, the Piano strip and the two drawing routines.        *)
(***************************************************************************)
EXTENDS Integers, Sequences, FiniteSets, TLC

\* ------------------------------------------------------------------ bounds
MaxNotes == 2   \* notes the store may hold before clicks stop creating
MaxRow   == 1   \* pointer rows 0..MaxRow are tried (plus rows off the lattice)
MaxCol   == 1   \* pointer columns 0..MaxCol are tried in the playback runs
MaxClock == 1   \* Date.now() ranges over 0..MaxClock
MaxNow   == 1   \* Tone.now() ranges over 0..MaxNow hundredths of a second

\* ------------------------------------------------------- program constants
OCTAVES == 5
MEASURES == 4
BEATS_PER_MEASURE == 4
CELL_SIZE == 25
GROW_COLUMNS == 50
SECONDS_PER_CELL == 25
NOTES == <<"C", "C#", "D", "D#", "E", "F", "F#", "G", "G#", "A", "A#", "B">>

\* JavaScript's undefined (an array read out of range) and null.
Undefined == <<>>
Null == [null |-> TRUE]
\* -Infinity, the value of Math.max() over no arguments: below every finite
\* time of the model, and absorbing under multiplication by 0.25.
NegInfinity == -1000000

RECURSIVE Reverse(_)
Reverse(s) == IF s = <<>> THEN <<>> ELSE Append(Reverse(Tail(s)), Head(s))

RECURSIVE Flat(_)
Flat(ss) == IF ss = <<>> THEN <<>> ELSE Head(ss) \o Flat(Tail(ss))

\* allNotes: Array.from({length: OCTAVES}, (_, octave) =>
\*   NOTES.map(note => `${note}${OCTAVES - octave}`)).flat().reverse()
\* A pitch name `${note}${n}` is the pair <<note, n>>.
allNotes ==
    Reverse(Flat([octave1 \in 1..OCTAVES |->
        [k \in 1..Len(NOTES) |-> <<NOTES[k], OCTAVES - (octave1 - 1)>>]]))

\* allNotes[i] as JavaScript reads it: 0-based, undefined out of range.
allNotesAt(i) == IF i \in 0..(Len(allNotes) - 1) THEN allNotes[i + 1] ELSE Undefined

\* Math.floor(p / CELL_SIZE); \div rounds towards minus infinity as floor does.
pixelToCell(p) == p \div CELL_SIZE

VARIABLES
    synth,            \* TRUE once the mount effect has stored the PolySynth
    notes,            \* the note store, a sequence in creation order
    isPlaying,
    isDragging,
    selectedNote,     \* Null or the note object handed to setSelectedNote
    numberOfColumns,
    clock,            \* last value read from Date.now()
    transportState,   \* Tone.Transport.state: "stopped" or "started"
    transportTicks,   \* next transport time still to be processed
    timeline,         \* events scheduled on Tone.Transport
    revoked,          \* TRUE once cancel() removed a callback still to run
    gesture,          \* observer of the pointer gesture in progress (SpecGesture)
    event,            \* the handler that ran last, with its input
    calls             \* the audio-engine calls that handler issued, in order

vars == <<synth, notes, isPlaying, isDragging, selectedNote, numberOfColumns,
          clock, transportState, transportTicks, timeline, revoked, gesture,
          event, calls>>

editVars == <<notes, isDragging, selectedNote, numberOfColumns, clock>>
playVars == <<isPlaying, transportState, transportTicks, timeline, revoked>>

\* ------------------------------------------------------------ input sets
\* One pixel in the middle of cell i (i may lie outside the canvas).
CellPixel(i) == i * CELL_SIZE + 12

\* Pointer positions of the editing runs: rows of the lattice and the row
\* past its end, the first column, the last visible column and the one past it.
EdgeRows == 0..MaxRow \cup {Len(allNotes)}
EdgeCols == {0, numberOfColumns - 1, numberOfColumns}
Ys == {CellPixel(r) : r \in EdgeRows}
Xs == {CellPixel(c) : c \in EdgeCols}
\* Pointer positions inside the canvas only.
CanvasYs == {CellPixel(r) : r \in 0..MaxRow}
CanvasXs == {CellPixel(c) : c \in {0, numberOfColumns - 1}}
\* Pointer positions of the playback runs: cells inside the canvas.
PlayYs == {CellPixel(r) : r \in 0..MaxRow}
PlayXs == {CellPixel(c) : c \in 0..MaxCol}

Init ==
    /\ synth = FALSE
    /\ notes = <<>>
    /\ isPlaying = FALSE
    /\ isDragging = FALSE
    /\ selectedNote = Null
    /\ numberOfColumns = MEASURES * BEATS_PER_MEASURE * 4
    /\ clock = 0
    /\ transportState = "stopped"
    /\ transportTicks = 0
    /\ timeline = {}
    /\ revoked = FALSE
    /\ gesture = [phase |-> "none"]
    /\ event = [op |-> "mount"]
    /\ calls = <<>>

\* useEffect(() => { setSynth(new Tone.PolySynth(...)) }, [])
SynthReady ==
    /\ synth = FALSE
    /\ synth' = TRUE
    /\ event' = [op |-> "effect"]
    /\ calls' = <<>>
    /\ UNCHANGED <<editVars, playVars>>

\* notes.find(note => note.rowIndex === rowIndex && colIndex >= note.colIndex
\*                    && colIndex < note.colIndex + note.duration)
\* The index (1-based) of the first match, 0 when find returns undefined.
Covers(note, rowIndex, colIndex) ==
    /\ note.rowIndex = rowIndex
    /\ colIndex >= note.colIndex
    /\ colIndex < note.colIndex + note.duration

findIndex_last(ns, rowIndex, colIndex) ==
    LET hits == {i \in 1..Len(ns) : Covers(ns[i], rowIndex, colIndex)}
    IN IF hits = {} THEN 0 ELSE CHOOSE i \in hits : \A j \in hits : i >= j

findIndex(ns, rowIndex, colIndex) ==
    LET hits == {i \in 1..Len(ns) : Covers(ns[i], rowIndex, colIndex)}
    IN IF hits = {} THEN 0 ELSE CHOOSE i \in hits : \A j \in hits : i <= j

\* playNote: if (synth) synth.triggerAttack(note)
playNote_unguarded(note) == <<<<"triggerAttack", note>>>>

playNote(note) == IF synth THEN <<<<"triggerAttack", note>>>> ELSE <<>>

\* prevNotes.map(note => ({...note, selected: note.id === clickedNote.id}))
selectById_onlyClicked(ns, id) ==
    SelectSeq([i \in 1..Len(ns) |-> [ns[i] EXCEPT !.selected = TRUE]],
              LAMBDA n : n.id = id)

selectById(ns, id) == [i \in 1..Len(ns) |-> [ns[i] EXCEPT !.selected = (ns[i].id = id)]]

\* prevNotes.map(note => ({...note, selected: false}))
deselectAll_none(ns) == ns
deselectAll(ns) == [i \in 1..Len(ns) |-> [ns[i] EXCEPT !.selected = FALSE]]

newNoteAt(now, rowIndex, colIndex) ==
    [id |-> now, note |-> allNotesAt(rowIndex), start |-> colIndex, duration |-> 1,
     rowIndex |-> rowIndex, colIndex |-> colIndex, selected |-> TRUE]

handleCanvasClick(x, y, now) ==
    LET colIndex == pixelToCell(x)
        rowIndex == pixelToCell(y)
        hit == findIndex(notes, rowIndex, colIndex)
    IN
    /\ event' = [op |-> "click", x |-> x, y |-> y]
    /\ IF hit # 0 THEN
            /\ selectedNote' = notes[hit]
            /\ notes' = selectById(notes, notes[hit].id)
            /\ calls' = <<>>
            /\ UNCHANGED <<isDragging, numberOfColumns, clock>>
       ELSE IF ~isDragging THEN
            /\ Len(notes) < MaxNotes
            /\ clock' = now
            /\ notes' = Append(deselectAll(notes), newNoteAt(now, rowIndex, colIndex))
            /\ selectedNote' = newNoteAt(now, rowIndex, colIndex)
            /\ calls' = playNote(allNotesAt(rowIndex))
            /\ numberOfColumns' = IF colIndex >= numberOfColumns - 1
                                  THEN numberOfColumns + GROW_COLUMNS
                                  ELSE numberOfColumns
            /\ UNCHANGED isDragging
       ELSE
            /\ calls' = <<>>
            /\ UNCHANGED editVars
    /\ UNCHANGED <<synth, playVars>>

Click(XS, YS) ==
    \E x \in XS, y \in YS, now \in clock..MaxClock : handleCanvasClick(x, y, now)

handleMouseDown_always(x, y) ==
    LET colIndex == pixelToCell(x)
        rowIndex == pixelToCell(y)
        hit == findIndex(notes, rowIndex, colIndex)
    IN
    /\ event' = [op |-> "down", x |-> x, y |-> y]
    /\ calls' = <<>>
    /\ selectedNote' = IF hit # 0 THEN notes[hit] ELSE selectedNote
    /\ isDragging' = TRUE
    /\ UNCHANGED <<notes, numberOfColumns, clock, synth, playVars>>

handleMouseDown(x, y) ==
    LET colIndex == pixelToCell(x)
        rowIndex == pixelToCell(y)
        hit == findIndex(notes, rowIndex, colIndex)
    IN
    /\ event' = [op |-> "down", x |-> x, y |-> y]
    /\ calls' = <<>>
    /\ IF hit # 0 THEN
            /\ selectedNote' = notes[hit]
            /\ isDragging' = TRUE
       ELSE UNCHANGED <<selectedNote, isDragging>>
    /\ UNCHANGED <<notes, numberOfColumns, clock, synth, playVars>>

MouseDown(XS, YS) == \E x \in XS, y \in YS : handleMouseDown(x, y)

\* prevNotes.map(note => note.id === selectedNote.id
\*   ? {...note, colIndex: newColIndex, rowIndex: newRowIndex, note: allNotes[newRowIndex]}
\*   : note)
moveById_keepsCell(ns, id, newRowIndex, newColIndex) == ns

moveById(ns, id, newRowIndex, newColIndex) ==
    [i \in 1..Len(ns) |->
        IF ns[i].id = id
        THEN [ns[i] EXCEPT !.colIndex = newColIndex, !.rowIndex = newRowIndex,
                           !.note = allNotesAt(newRowIndex)]
        ELSE ns[i]]

handleMouseMove(x, y) ==
    LET newColIndex == pixelToCell(x)
        newRowIndex == pixelToCell(y)
    IN
    /\ event' = [op |-> "move", x |-> x, y |-> y]
    /\ calls' = <<>>
    /\ IF isDragging /\ selectedNote # Null
       THEN notes' = moveById(notes, selectedNote.id, newRowIndex, newColIndex)
       ELSE UNCHANGED notes
    /\ UNCHANGED <<isDragging, selectedNote, numberOfColumns, clock, synth, playVars>>

MouseMove(XS, YS) == \E x \in XS, y \in YS : handleMouseMove(x, y)

\* onMouseUp and onMouseLeave are both bound to handleMouseUp.
handleMouseUp ==
    /\ event' = [op |-> "up"]
    /\ calls' = <<>>
    /\ isDragging' = FALSE
    /\ UNCHANGED <<notes, selectedNote, numberOfColumns, clock, synth, playVars>>

MouseUp == handleMouseUp

\* ---------------------------------------------------------------- playback
\* Math.max(...notes.map(n => n.start + n.duration)): Math.max starts from
\* -Infinity and keeps the larger argument.
RECURSIVE mathMax(_)
mathMax(xs) ==
    IF xs = <<>> THEN NegInfinity
    ELSE LET m == mathMax(Tail(xs)) IN IF Head(xs) > m THEN Head(xs) ELSE m

\* x * 0.25 in hundredths of a second; -Infinity * 0.25 is -Infinity.
timesQuarter(x) == IF x = NegInfinity THEN NegInfinity ELSE x * SECONDS_PER_CELL

maxDuration(ns) == timesQuarter(mathMax([i \in 1..Len(ns) |-> ns[i].start + ns[i].duration]))

\* Tone.Transport.cancel(): removes the events scheduled at or after time 0
\* (the default `after`); an event that is left behind is from now on one of
\* an earlier session.
transportCancel(tl) == {[e EXCEPT !.stale = TRUE] : e \in {f \in tl : f.time < 0}}

\* An event the running transport can still reach.
Pending(tl, ticks) == {e \in tl : e.time >= ticks}

\* notes.forEach(({note, start, duration}) =>
\*   synth.triggerAttackRelease(note, duration * 0.25, now + start * 0.25))
attackReleases_byColIndex(ns, now) ==
    [i \in 1..Len(ns) |->
        <<"triggerAttackRelease", ns[i].note, timesQuarter(ns[i].duration),
          now + timesQuarter(ns[i].colIndex)>>]

attackReleases(ns, now) ==
    [i \in 1..Len(ns) |->
        <<"triggerAttackRelease", ns[i].note, timesQuarter(ns[i].duration),
          now + timesQuarter(ns[i].start)>>]

startSession_noCancel(now) ==
    /\ isPlaying' = TRUE
    /\ timeline' = {[e EXCEPT !.stale = TRUE] : e \in timeline}
                     \cup {[time |-> maxDuration(notes), stale |-> FALSE]}
    /\ revoked' = revoked
    /\ transportTicks' = 0
    /\ transportState' = "started"
    /\ calls' = <<<<"stop">>, <<"position", 0>>>>
                  \o attackReleases(notes, now)
                  \o <<<<"schedule", maxDuration(notes)>>, <<"start">>>>

\* The body of playRecorded behind its guard.
startSession(now) ==
    /\ isPlaying' = TRUE
    /\ timeline' = transportCancel(timeline)
                     \cup {[time |-> maxDuration(notes), stale |-> FALSE]}
    /\ revoked' = (revoked \/ Pending(timeline, transportTicks) # {})
    /\ transportTicks' = 0
    /\ transportState' = "started"
    /\ calls' = <<<<"cancel">>, <<"stop">>, <<"position", 0>>>>
                  \o attackReleases(notes, now)
                  \o <<<<"schedule", maxDuration(notes)>>, <<"start">>>>

playRecorded_noPlayingGuard(now) ==
    /\ event' = [op |-> "play", now |-> now]
    /\ IF synth
       THEN startSession(now)
       ELSE /\ calls' = <<>>
            /\ UNCHANGED playVars
    /\ UNCHANGED <<synth, editVars>>

playRecorded(now) ==
    /\ event' = [op |-> "play", now |-> now]
    /\ IF synth /\ ~isPlaying
       THEN startSession(now)
       ELSE /\ calls' = <<>>
            /\ UNCHANGED playVars
    /\ UNCHANGED <<synth, editVars>>

Play == \E now \in 0..MaxNow : playRecorded(now)

stopPlayback_noCancel ==
    /\ event' = [op |-> "stop"]
    /\ transportState' = "stopped"
    /\ transportTicks' = 0
    /\ timeline' = {[e EXCEPT !.stale = TRUE] : e \in timeline}
    /\ revoked' = revoked
    /\ isPlaying' = FALSE
    /\ calls' = <<<<"stop">>>> \o (IF synth THEN <<<<"releaseAll">>>> ELSE <<>>)
    /\ UNCHANGED <<synth, editVars>>

stopPlayback ==
    /\ event' = [op |-> "stop"]
    /\ transportState' = "stopped"
    /\ transportTicks' = 0
    /\ timeline' = transportCancel(timeline)
    /\ revoked' = (revoked \/ Pending(timeline, transportTicks) # {})
    /\ isPlaying' = FALSE
    /\ calls' = <<<<"stop">>, <<"cancel">>>>
                  \o (IF synth THEN <<<<"releaseAll">>>> ELSE <<>>)
    /\ UNCHANGED <<synth, editVars>>

Stop == stopPlayback

\* The transport's timer: the started transport reaches the next scheduled
\* time and invokes the callbacks scheduled there, () => setIsPlaying(false).
TransportTimer ==
    /\ transportState = "started"
    /\ Pending(timeline, transportTicks) # {}
    /\ LET due  == Pending(timeline, transportTicks)
           t    == CHOOSE u \in {e.time : e \in due} : \A e \in due : u <= e.time
           run  == {e \in due : e.time = t}
       IN /\ isPlaying' = FALSE
          /\ transportTicks' = t + 1
          /\ event' = [op |-> "timer", stale |-> (\E e \in run : e.stale)]
    /\ calls' = <<>>
    /\ UNCHANGED <<synth, editVars, transportState, timeline, revoked>>

\* ---------------------------------------------------------- specifications
\* The pointer handlers neither read nor write the transport session, and
\* playRecorded / stopPlayback neither read nor write the pointer state, so
\* the two halves are explored separately: Spec drives the pointer handlers
\* over every kind of position, SpecPlay drives the playback handlers over
\* stores built with positions inside the canvas.
Next ==
    \/ SynthReady /\ UNCHANGED gesture
    \/ Click(Xs, Ys) /\ UNCHANGED gesture
    \/ MouseDown(Xs, Ys) /\ UNCHANGED gesture
    \/ MouseMove(Xs, Ys) /\ UNCHANGED gesture
    \/ MouseUp /\ UNCHANGED gesture

Spec == Init /\ [][Next]_vars

\* The pointer handlers again, with every position inside the canvas.
NextCanvas ==
    \/ SynthReady /\ UNCHANGED gesture
    \/ Click(CanvasXs, CanvasYs) /\ UNCHANGED gesture
    \/ MouseDown(CanvasXs, CanvasYs) /\ UNCHANGED gesture
    \/ MouseMove(CanvasXs, CanvasYs) /\ UNCHANGED gesture
    \/ MouseUp /\ UNCHANGED gesture

SpecCanvas == Init /\ [][NextCanvas]_vars

NextPlay ==
    \/ SynthReady /\ UNCHANGED gesture
    \/ Click(PlayXs, PlayYs) /\ UNCHANGED gesture
    \/ MouseDown(PlayXs, PlayYs) /\ UNCHANGED gesture
    \/ MouseMove(PlayXs, PlayYs) /\ UNCHANGED gesture
    \/ MouseUp /\ UNCHANGED gesture
    \/ Play /\ UNCHANGED gesture
    \/ Stop /\ UNCHANGED gesture
    \/ TransportTimer /\ UNCHANGED gesture

SpecPlay == Init /\ [][NextPlay]_vars

\* The transport's timer runs whenever it has a callback to reach.
SpecPlayFair == SpecPlay /\ WF_vars(TransportTimer /\ UNCHANGED gesture)

\* The pointer handlers once more, observed as gestures.  The browser sends
\* mousedown, mousemove*, mouseup and then click at the position of the
\* release; `gesture` follows that protocol and records the cell of the
\* pointer, whether the press landed on a note, and whether the pointer left
\* the canvas (mouseleave runs handleMouseUp too); after the click it keeps
\* what it recorded, in phase "clicked".  Any event out of protocol ends the
\* observation; the handlers themselves never read `gesture`.
GesturePress ==
    gesture' = IF gesture.phase # "held"
               THEN [phase |-> "held", x |-> event'.x, y |-> event'.y,
                     onNote |-> findIndex(notes, pixelToCell(event'.y),
                                          pixelToCell(event'.x)) # 0,
                     left |-> FALSE]
               ELSE [phase |-> "none"]

GestureMove ==
    gesture' = IF gesture.phase = "held"
               THEN [gesture EXCEPT !.x = event'.x, !.y = event'.y]
               ELSE [phase |-> "none"]

GestureRelease ==
    gesture' = IF gesture.phase = "held"
               THEN [gesture EXCEPT !.phase = "released"]
               ELSE [phase |-> "none"]

GestureLeave ==
    gesture' = IF gesture.phase = "held"
               THEN [gesture EXCEPT !.left = TRUE]
               ELSE [phase |-> "none"]

GestureClick ==
    gesture' = IF /\ gesture.phase = "released"
                  /\ event'.x = gesture.x
                  /\ event'.y = gesture.y
               THEN [gesture EXCEPT !.phase = "clicked"]
               ELSE [phase |-> "none"]

NextGesture ==
    \/ SynthReady /\ UNCHANGED gesture
    \/ Click(CanvasXs, CanvasYs) /\ GestureClick
    \/ MouseDown(CanvasXs, CanvasYs) /\ GesturePress
    \/ MouseMove(CanvasXs, CanvasYs) /\ GestureMove
    \/ MouseUp /\ GestureRelease
    \/ MouseUp /\ GestureLeave

SpecGesture == Init /\ [][NextGesture]_vars

\* ================================================================== claims
Selected(ns) == {i \in 1..Len(ns) : ns[i].selected}

\* C1: in every reachable state at most one note of the store has
\* selected = true, and exactly one has it once the store is non-empty.
C1_AtMostOneSelected ==
    /\ Cardinality(Selected(notes)) <= 1
    /\ notes # <<>> => Cardinality(Selected(notes)) = 1

\* C2: for every note of the store, colIndex equals start, the field that
\* playRecorded reads, in every reachable state.
C2_ColIndexIsStart == \A i \in 1..Len(notes) : notes[i].colIndex = notes[i].start

\* C3: every note of the store has 0 <= rowIndex < allNotes.length and its
\* pitch is allNotes[rowIndex]: a click or a drag move off the lattice leaves
\* no note with an undefined pitch in the store.
C3_RowInLattice ==
    \A i \in 1..Len(notes) :
        /\ notes[i].rowIndex >= 0
        /\ notes[i].rowIndex < Len(allNotes)
        /\ notes[i].note # Undefined
        /\ notes[i].note = allNotes[notes[i].rowIndex + 1]

\* The calls of one kind among the calls of the last handler.
CallsOf(kind) == {j \in 1..Len(calls) : calls[j][1] = kind}

\* C4: playRecorded invoked while isPlaying is a no-op: it issues no call,
\* schedules nothing, and leaves the transport, the session and the store
\* as they are.
C4_PlayWhilePlayingIsNoop ==
    [][(isPlaying /\ event'.op = "play")
          => /\ calls' = <<>>
             /\ UNCHANGED <<playVars, notes>>]_vars

C4_Witness ==
    /\ event.op = "play"
    /\ calls = <<>>
    /\ synth
    /\ isPlaying
    /\ notes # <<>>
    /\ Pending(timeline, transportTicks) # {}

\* C5: with an empty store playRecorded issues no engine call, computes no
\* maximum over the empty set and leaves the session stopped.
C5_EmptyStorePlay ==
    (event.op = "play" /\ notes = <<>>)
        => /\ calls = <<>>
           /\ \A e \in timeline : e.time # NegInfinity
           /\ ~isPlaying

\* C6: the completion callback that the transport runs is never one of an
\* earlier session, that is one scheduled before a later stopPlayback or a
\* later playRecorded.
C6_NoStaleCompletion == event.op = "timer" => ~event.stale

C6_Witness == event.op = "timer" /\ revoked /\ ~isPlaying

\* C7 as claimed: stopPlayback always leaves the session stopped, nothing
\* pending on the transport, the transport stopped and releaseAll issued.
C7_StopAlwaysReleases ==
    event.op = "stop"
        => /\ ~isPlaying
           /\ transportState = "stopped"
           /\ Pending(timeline, transportTicks) = {}
           /\ CallsOf("releaseAll") # {}

\* C7, amended: stopPlayback always leaves the session stopped, nothing
\* pending on the transport and the transport stopped; it issues releaseAll
\* whenever the synth exists; and invoked while the session is already
\* stopped it changes neither isPlaying nor the note store.
C7_StopStops ==
    [][event'.op = "stop"
          => /\ ~isPlaying'
             /\ transportState' = "stopped"
             /\ Pending(timeline', transportTicks') = {}
             /\ CallsOf("stop")' # {} /\ CallsOf("cancel")' # {}
             /\ synth => CallsOf("releaseAll")' # {}
             /\ notes' = notes
             /\ ~isPlaying => isPlaying' = isPlaying]_vars

C7_Witness ==
    /\ event.op = "stop"
    /\ revoked
    /\ synth
    /\ CallsOf("releaseAll") # {}
    /\ notes # <<>>

\* C8: a playRecorded that starts a session issues, for every note of the
\* store, exactly one triggerAttackRelease(note, duration * 0.25,
\* now + start * 0.25), all of them before Transport.start(), and schedules
\* exactly one completion callback, at max(start + duration) * 0.25.
C8_PlaySchedulesEveryNote ==
    (event.op = "play" /\ calls # <<>>)
        => LET n == Len(notes) IN
           /\ Len(calls) = n + 5
           /\ CallsOf("triggerAttackRelease") = 4..(n + 3)
           /\ \A i \in 1..n :
                calls[3 + i] = <<"triggerAttackRelease", notes[i].note,
                                 notes[i].duration * SECONDS_PER_CELL,
                                 event.now + notes[i].start * SECONDS_PER_CELL>>
           /\ CallsOf("schedule") = {n + 4}
           /\ CallsOf("start") = {n + 5}
           /\ n > 0 =>
                /\ \E i \in 1..n :
                     calls[n + 4][2] = (notes[i].start + notes[i].duration) * SECONDS_PER_CELL
                /\ \A i \in 1..n :
                     calls[n + 4][2] >= (notes[i].start + notes[i].duration) * SECONDS_PER_CELL
           /\ \E e \in timeline : e.time = calls[n + 4][2] /\ ~e.stale

C8_Witness ==
    /\ event.op = "play"
    /\ calls # <<>>
    /\ Len(notes) = 2
    /\ notes[1].start > notes[2].start
    /\ notes[2].colIndex # notes[2].start

\* The cell of the last pointer event.
EventRow(ev) == pixelToCell(ev.y)
EventCol(ev) == pixelToCell(ev.x)

\* What C9 says a click on (row, col) does to the store.
ClickAppends(row, col) ==
    /\ Len(notes') = Len(notes) + 1
    /\ LET n == notes'[Len(notes')] IN
        /\ n.rowIndex = row
        /\ n.colIndex = col
        /\ n.start = col
        /\ n.duration = 1
        /\ n.selected
        /\ n.note = IF row >= 0 /\ row < Len(allNotes) THEN allNotes[row + 1] ELSE Undefined
    /\ Selected(notes') = {Len(notes')}
    /\ \A i \in 1..Len(notes) : notes'[i] = [notes[i] EXCEPT !.selected = FALSE]

\* C9 as claimed: a click on a cell that hits no note appends one note.
C9_ClickOnEmptyCellCreates ==
    [][(event'.op = "click" /\ findIndex(notes, EventRow(event'), EventCol(event')) = 0)
          => ClickAppends(EventRow(event'), EventCol(event'))]_vars

\* C9, amended: a click on a cell (row, col) that hits no note, while the
\* controller is not dragging, appends one note with rowIndex = row,
\* colIndex = start = col, pitch = allNotes[row], duration = 1 and
\* selected = true; afterwards it is the only selected note and every
\* earlier note is unchanged except for its selected flag.
C9_IdleClickOnEmptyCellCreates ==
    [][(/\ event'.op = "click"
        /\ findIndex(notes, EventRow(event'), EventCol(event')) = 0
        /\ ~isDragging)
          => ClickAppends(EventRow(event'), EventCol(event'))]_vars

C9_Witness ==
    /\ event.op = "click"
    /\ Len(notes) = 2
    /\ notes[1].selected = FALSE
    /\ notes[2].rowIndex = EventRow(event)
    /\ notes[2].colIndex = EventCol(event)
    /\ notes[2].note = allNotes[2]
    /\ calls = <<<<"triggerAttack", notes[2].note>>>>

\* C10: the column count never decreases; it changes only when a click
\* creates a note at or beyond the last visible column, and then by exactly
\* GROW_COLUMNS with every earlier note where it was; and every note's
\* colIndex stays below the column count.
C10_ColumnsOnlyGrow ==
    [][/\ numberOfColumns' >= numberOfColumns
       /\ numberOfColumns' # numberOfColumns
            => /\ event'.op = "click"
               /\ Len(notes') = Len(notes) + 1
               /\ notes'[Len(notes')].colIndex >= numberOfColumns - 1
               /\ numberOfColumns' = numberOfColumns + GROW_COLUMNS
               /\ \A i \in 1..Len(notes) :
                    /\ notes'[i].rowIndex = notes[i].rowIndex
                    /\ notes'[i].colIndex = notes[i].colIndex
                    /\ notes'[i].start = notes[i].start
       /\ \A i \in 1..Len(notes') : notes'[i].colIndex < numberOfColumns']_vars

\* The pitch the lattice gives a row.
PitchOfRow(row) == IF row >= 0 /\ row < Len(allNotes) THEN allNotes[row + 1] ELSE Undefined

\* The notes whose span holds the cell (row, col), by their place in the store.
Covering(ns, row, col) ==
    {i \in 1..Len(ns) :
        /\ ns[i].rowIndex = row
        /\ ns[i].colIndex <= col
        /\ col < ns[i].colIndex + ns[i].duration}

\* C11: handleMouseMove changes the store only while dragging, and then it
\* changes one note only, the held one: its rowIndex, colIndex and pitch
\* become those of the cell under the pointer, its other fields, every other
\* note and the number of notes stay as they were.
C11_MoveMovesOnlyHeldNote ==
    [][event'.op = "move"
          => IF isDragging /\ selectedNote # Null
             THEN /\ Len(notes') = Len(notes)
                  /\ \E h \in 1..Len(notes) :
                       /\ notes[h].id = selectedNote.id
                       /\ notes'[h] = [notes[h] EXCEPT
                                          !.rowIndex = EventRow(event'),
                                          !.colIndex = EventCol(event'),
                                          !.note = PitchOfRow(EventRow(event'))]
                       /\ \A i \in 1..Len(notes) \ {h} : notes'[i] = notes[i]
             ELSE notes' = notes]_vars

\* C12: both handleCanvasClick and handleMouseDown find a note exactly when
\* some note has rowIndex = row and colIndex <= col < colIndex + duration:
\* on such a cell they take the first such note in store order, on any other
\* cell they take none (the press changes nothing, the click creates a note
\* or changes nothing).
C12_HitTestFirstCovering ==
    [][event'.op \in {"down", "click"}
          => LET cov == Covering(notes, EventRow(event'), EventCol(event')) IN
             IF cov # {}
             THEN /\ \E i \in cov :
                       /\ \A j \in cov : i <= j
                       /\ selectedNote' = notes[i]
                  /\ Len(notes') = Len(notes)
                  /\ event'.op = "down" => isDragging'
             ELSE /\ event'.op = "down" => UNCHANGED <<selectedNote, isDragging, notes>>
                  /\ event'.op = "click"
                       => \/ Len(notes') = Len(notes) + 1
                          \/ UNCHANGED <<selectedNote, notes>>]_vars

C12_Witness ==
    /\ event.op = "down"
    /\ Len(notes) = 2
    /\ Covering(notes, EventRow(event), EventCol(event)) = {1, 2}
    /\ notes[1] # notes[2]
    /\ selectedNote = notes[1]
    /\ isDragging

C14_DistinctIds ==
    \A i, j \in 1..Len(notes) : notes[i].id = notes[j].id => i = j

\* C15: whether the synth is there or not (synth is null), the pointer
\* handlers do the same to the store, the selection and the drag state: a
\* click on an empty cell creates and selects a note, a click on a note
\* selects it, a press on a note starts a drag, a move while dragging brings
\* the held note to the pointer's cell, a release ends the drag; without the
\* synth playRecorded changes nothing and leaves the session stopped and no
\* call reaches the synth; and, with or without it, no playback step changes
\* the store, the selection, the drag state or the column count.
C15_NoSynthSamePointerEffects ==
    [][/\ event'.op \in {"play", "stop", "timer", "effect"}
            => UNCHANGED <<notes, selectedNote, isDragging, numberOfColumns>>
       /\ ~synth' =>
            /\ \A i \in 1..Len(calls') : calls'[i][1] \in {"stop", "cancel"}
            /\ event'.op = "play"
                 => (~isPlaying' /\ calls' = <<>> /\ UNCHANGED playVars)
       /\ event'.op = "up" => ~isDragging'
       /\ event'.op \in {"click", "down", "move"}
            => LET row == EventRow(event')
                   col == EventCol(event')
                   cov == Covering(notes, row, col)
               IN
               /\ (event'.op = "click" /\ cov = {} /\ ~isDragging)
                    => /\ ClickAppends(row, col)
                       /\ selectedNote' = notes'[Len(notes')]
               /\ (event'.op = "click" /\ cov # {})
                    => /\ Len(notes') = Len(notes)
                       /\ \E i \in cov : selectedNote' = notes[i] /\ notes'[i].selected
               /\ (event'.op = "down" /\ cov # {})
                    => /\ isDragging'
                       /\ \E i \in cov : selectedNote' = notes[i]
               /\ (event'.op = "move" /\ isDragging)
                    => \E i \in Covering(notes', row, col) :
                          notes'[i].id = selectedNote.id]_vars

C15_Witness ==
    /\ ~synth
    /\ event.op = "play"
    /\ ~isPlaying
    /\ transportState = "stopped"
    /\ calls = <<>>
    /\ Len(notes) = 2
    /\ selectedNote # Null
    /\ \E i \in 1..2 : notes[i].colIndex # notes[i].start

\* C16: the note selectedNote names is the one note of the store whose
\* selected flag is true (looked at in the stores whose ids are pairwise
\* distinct, where an id names one note).
C16_SelectionReferenceIsSelectedNote ==
    (selectedNote # Null /\ C14_DistinctIds)
        => \E i \in 1..Len(notes) :
              /\ notes[i].id = selectedNote.id
              /\ Selected(notes) = {i}

\* C17: handleMouseDown on a cell that holds a note sets isDragging and makes
\* selectedNote that note (the first one covering the cell); on a cell that
\* holds none it leaves isDragging and selectedNote as they were; either way
\* the store and the column count are unchanged; and isDragging never becomes
\* true in any other way.
C17_PressDragsIffHit ==
    [][/\ event'.op = "down"
            => LET cov == Covering(notes, EventRow(event'), EventCol(event')) IN
               /\ notes' = notes
               /\ numberOfColumns' = numberOfColumns
               /\ IF cov # {}
                  THEN /\ isDragging'
                       /\ \E i \in cov : selectedNote' = notes'[i]
                       /\ selectedNote'.rowIndex = EventRow(event')
                       /\ selectedNote'.colIndex = EventCol(event')
                  ELSE /\ isDragging' = isDragging
                       /\ selectedNote' = selectedNote
       /\ (~isDragging /\ isDragging')
            => /\ event'.op = "down"
               /\ Covering(notes, EventRow(event'), EventCol(event')) # {}]_vars

C17_Witness ==
    /\ event.op = "down"
    /\ isDragging
    /\ Len(notes) = 2
    /\ selectedNote = notes[1]
    /\ notes[1].id # notes[2].id
    /\ notes[1].rowIndex = EventRow(event)
    /\ notes[1].colIndex = EventCol(event)

\* C18: handleMouseUp (mouseup and mouseleave) always leaves isDragging false
\* and, when it ends a drag, selectedNote cleared; and while isDragging is
\* false no mousemove changes a note.
C18_ReleaseClearsDragReference ==
    [][/\ event'.op = "up" => ~isDragging'
       /\ (event'.op = "up" /\ isDragging) => selectedNote' = Null
       /\ (event'.op = "move" /\ ~isDragging) => notes' = notes]_vars

\* C19: a click on a cell that holds a note adds no note, leaves id, pitch,
\* rowIndex, colIndex, start and duration of every note and the column count
\* as they were, and issues no call to the audio engine.
C19_ClickOnNoteOnlySelects ==
    [][(/\ event'.op = "click"
        /\ Covering(notes, EventRow(event'), EventCol(event')) # {})
          => /\ Len(notes') = Len(notes)
             /\ \A i \in 1..Len(notes) :
                  notes'[i] = [notes[i] EXCEPT !.selected = notes'[i].selected]
             /\ numberOfColumns' = numberOfColumns
             /\ isDragging' = isDragging
             /\ calls' = <<>>]_vars

C19_Witness ==
    /\ event.op = "click"
    /\ synth
    /\ calls = <<>>
    /\ Len(notes) = 2
    /\ notes[1].id # notes[2].id
    /\ Covering(notes, EventRow(event), EventCol(event)) = {1}
    /\ notes[1].selected
    /\ ~notes[2].selected

\* C20: a session that is playing is eventually stopped, the transport's
\* timer being the only one that has to act.
C20_PlayingLeadsToStopped == isPlaying ~> ~isPlaying
====
